---------------------------- MODULE Spec2Model ----------------------------
(***************************************************************************)
(* Model of the operations that #[derive(Table)] (macros/src/lib.rs)       *)
(* generates for a struct, run against one SQLite connection.              *)
(*                                                                         *)
(* The struct has the fields id: Option<i64>, name: String, age: i64,      *)
(* declared in any order (`fields`).  The generated SQL text is modelled   *)
(* by what SQLite does with it: which column each bound parameter lands    *)
(* in, which row the WHERE clause selects, how an INTEGER PRIMARY KEY      *)
(* AUTOINCREMENT column picks a rowid.                                     *)
(***************************************************************************)
EXTENDS Integers, Sequences, FiniteSets, TLC

\* Largest rowid the model lets the table hold.
MaxId == 2
\* Most fields a declaration handed to derive_table has.
MaxFields == 3

Ids == 1..MaxId
\* The values the callers give the two columns.  The ages are also rowids,
\* so that an age bound where an id belongs names a row.
Names == {"larry", "moe"}
Ages == {1, 2}

VARIABLES
    input,    \* the declaration #[derive(Table)] is applied to
    derived,  \* what derive_table made of it
    fields,   \* the struct's field names, in declaration order
    conn,     \* the database behind the connection
    self,     \* the struct instance the operations are called on
    other,    \* a second instance the caller holds (larry.clone())
    call,     \* the last operation called, with its id argument
    res,      \* what that call returned
    stmts,    \* how many statements that call handed to the connection
    pre       \* conn, self and other as they were before that call

vars == <<input, derived, fields, conn, self, other, call, res, stmts, pre>>

---------------------------------------------------------------------------
(* Values *)

\* Option<i64>
None == [some |-> FALSE, v |-> 0]
Some(v) == [some |-> TRUE, v |-> v]

\* A stored scalar (rusqlite::types::Value): NULL, INTEGER or TEXT.
Null == [t |-> "null", i |-> 0, s |-> ""]
Integer(n) == [t |-> "integer", i |-> n, s |-> ""]
Text(x) == [t |-> "text", i |-> 0, s |-> x]

\* ToSql for the three field types.
ToSqlOption(o) == IF o.some THEN Integer(o.v) ELSE Null
ToSqlString(x) == Text(x)
ToSqlI64(n) == Integer(n)

\* The struct literal.
Person(id, name, age) == [id |-> id, name |-> name, age |-> age]

\* rusqlite::Result<_>: Ok carries an i64, a bool or a struct, by operation.
NoPerson == Person(None, "", 0)
Ok(n, b, p) == [ok |-> TRUE, err |-> "", n |-> n, b |-> b, row |-> p]
OkUnit == Ok(0, FALSE, NoPerson)
OkI64(n) == Ok(n, FALSE, NoPerson)
OkBool(b) == Ok(0, b, NoPerson)
OkSelf(p) == Ok(0, FALSE, p)
Err(e) == [ok |-> FALSE, err |-> e, n |-> 0, b |-> FALSE, row |-> NoPerson]

\* The variants of rusqlite::Error that occur.
InvalidQuery == "InvalidQuery"
QueryReturnedNoRows == "QueryReturnedNoRows"
InvalidColumnType == "InvalidColumnType"
NoSuchTable == "SqliteFailure: no such table"
ConstraintViolation == "SqliteFailure: UNIQUE constraint failed"
DatatypeMismatch == "SqliteFailure: datatype mismatch"

---------------------------------------------------------------------------
(* derive_table: what the macro computes from the struct declaration *)

Layouts == {<<"id", "name", "age">>, <<"id", "age", "name">>,
            <<"name", "id", "age">>, <<"age", "id", "name">>,
            <<"name", "age", "id">>, <<"age", "name", "id">>}

IsColumn(f) == f # "id"

field_names(fs) == fs
column_names(fs) == SelectSeq(fs, IsColumn)

\* quote!(self.#field_name), one per field in declaration order, as bound
\* by rusqlite::params![...].
Accessor(p, f) ==
    CASE f = "id" -> ToSqlOption(p.id)
      [] f = "name" -> ToSqlString(p.name)
      [] f = "age" -> ToSqlI64(p.age)

field_accessors(fs, p) == [i \in 1..Len(fs) |-> Accessor(p, fs[i])]

\* The column list of insert_sql: "(id, {column_names})".
insert_columns(fs) == <<"id">> \o column_names(fs)

\* The column list of update_sql's SET: every field name.
update_columns(fs) == field_names(fs)

\* The parameter update_sql's WHERE clause compares id with: "?1".
update_where_param(fs, params) == params[1]

Index(seq, x) == CHOOSE i \in 1..Len(seq) : seq[i] = x

\* The value a statement with column list cols and parameters params gives
\* column c: the i-th "?" goes to the i-th column.
Bound(cols, params, c) == params[Index(cols, c)]

---------------------------------------------------------------------------
(* The database: one table, id INTEGER PRIMARY KEY AUTOINCREMENT and two   *)
(* untyped columns.                                                        *)

EmptyRows == [k \in {} |-> 0]

NoTable == [exists |-> FALSE, rows |-> EmptyRows, seq |-> 0, last_insert_rowid |-> 0]

Max(S) == IF S = {} THEN 0 ELSE CHOOSE m \in S : \A x \in S : x <= m

RowIds(db) == DOMAIN db.rows

Put(rows, k, row) == [j \in (DOMAIN rows) \cup {k} |-> IF j = k THEN row ELSE rows[j]]
Remove(rows, k) == [j \in (DOMAIN rows) \ {k} |-> rows[j]]

\* conn.execute of a statement: what it did to the database, the error it
\* raised if any, and sqlite3_changes().
Done(db, n) == [db |-> db, err |-> "", changes |-> n]
Failed(db, e) == [db |-> db, err |-> e, changes |-> 0]

\* CREATE TABLE IF NOT EXISTS T (id INTEGER PRIMARY KEY AUTOINCREMENT, ...)
exec_create(db) ==
    IF db.exists THEN Done(db, 0)
    ELSE Done([db EXCEPT !.exists = TRUE, !.rows = EmptyRows, !.seq = 0], 0)

\* DROP TABLE IF EXISTS T
exec_drop_if_exists(db) ==
    Done([db EXCEPT !.exists = FALSE, !.rows = EmptyRows, !.seq = 0], 0)

\* DROP TABLE T
exec_drop(db) ==
    IF ~db.exists THEN Failed(db, NoSuchTable)
    ELSE Done([db EXCEPT !.exists = FALSE, !.rows = EmptyRows, !.seq = 0], 0)

\* The rowid AUTOINCREMENT gives a row inserted with a NULL id: one more than
\* the largest rowid the table has ever held.
NextRowid(db) == Max(RowIds(db) \cup {db.seq}) + 1

\* INSERT INTO T (cols) VALUES (?, ..., ?)
exec_insert(db, cols, params) ==
    LET idv == Bound(cols, params, "id")
        row == [name |-> Bound(cols, params, "name"),
                age |-> Bound(cols, params, "age")]
        k == IF idv.t = "null" THEN NextRowid(db) ELSE idv.i
    IN  IF ~db.exists THEN Failed(db, NoSuchTable)
        ELSE IF idv.t = "text" THEN Failed(db, DatatypeMismatch)
        ELSE IF k \in RowIds(db) THEN Failed(db, ConstraintViolation)
        ELSE Done([db EXCEPT !.rows = Put(db.rows, k, row),
                             !.seq = Max({db.seq, k}),
                             !.last_insert_rowid = k], 1)

\* UPDATE OR IGNORE T SET (cols) = (?1, ..., ?n) WHERE id = <where>
exec_update(db, cols, params, where) ==
    LET idv == Bound(cols, params, "id")
        row == [name |-> Bound(cols, params, "name"),
                age |-> Bound(cols, params, "age")]
        old == where.i
        new == idv.i
    IN  IF ~db.exists THEN Failed(db, NoSuchTable)
        ELSE IF where.t # "integer" \/ old \notin RowIds(db) THEN Done(db, 0)
        ELSE IF idv.t # "integer" THEN Failed(db, DatatypeMismatch)
        ELSE IF new # old /\ new \in RowIds(db) THEN Done(db, 0)
        ELSE Done([db EXCEPT !.rows = Put(Remove(db.rows, old), new, row)], 1)

\* DELETE FROM T WHERE id = ?
exec_delete(db, idv) ==
    IF ~db.exists THEN Failed(db, NoSuchTable)
    ELSE IF idv.t = "integer" /\ idv.i \in RowIds(db)
         THEN Done([db EXCEPT !.rows = Remove(db.rows, idv.i)], 1)
         ELSE Done(db, 0)

\* SELECT * FROM T WHERE id = ?: the rows found (at most one).
exec_select(db, k) == IF k \in RowIds(db) THEN {k} ELSE {}

---------------------------------------------------------------------------
(* derive_table on a declaration: the checks it makes and the lists and    *)
(* trait bounds it collects.                                               *)

OptionI64 == "Option<i64>"
Idents == {"id", "name", "age", "position"}
Types == {OptionI64, "String", "i64"}

Field(ident, ty) == [ident |-> ident, ty |-> ty]

\* A DeriveInput: a struct with named fields, a tuple struct, or an enum.
StructNamed(named) == [kind |-> "struct_named", named |-> named]
Unnamed(kind) == [kind |-> kind, named |-> << >>]

DistinctIdents(named) ==
    \A i, j \in 1..Len(named) : named[i].ident = named[j].ident => i = j

Declarations ==
    {Unnamed("struct_unnamed"), Unnamed("enum")}
    \cup {StructNamed(named) : named \in
            {s \in UNION {[1..n -> [ident : Idents, ty : Types]] : n \in 0..MaxFields} :
                DistinctIdents(s)}}

FieldIdents(named) == [i \in 1..Len(named) |-> named[i].ident]

\* The key the bounds are stored under: stringify!(#field_type), written
\* outside quote!, is the text of those two tokens, whatever the type.
BoundKey(ty) == "# field_type"

\* quote!(#field_type: rusqlite::types::ToSql) and ...::FromSql
TraitBound(ty, trait) == [ty |-> ty, trait |-> trait]

\* The HashMap of bounds after the loop has inserted one per field.
RECURSIVE trait_bounds(_, _, _)
trait_bounds(named, trait, n) ==
    IF n = 0 THEN EmptyRows
    ELSE Put(trait_bounds(named, trait, n - 1),
             BoundKey(named[n].ty), TraitBound(named[n].ty, trait))

Expansion(msg, names, cols, to_sql, from_sql) ==
    [panic |-> msg, field_names |-> names, column_names |-> cols,
     to_sql_trait_bounds |-> to_sql, from_sql_trait_bounds |-> from_sql]

Panic(msg) == Expansion(msg, << >>, << >>, EmptyRows, EmptyRows)

NotStruct == "#[derive(Table)] only supports structs"
NotNamed == "#[derive(Table)] only supports structs with named fields"
BadIdType == "The id field must be of type Option<i64>"
NoIdField == "Structs annotated with Table require a primary key field id: Option<i64>."

\* derive_table without the check of the id field's type.
derive_table_any_id_type(decl) ==
    LET named == decl.named
        names == FieldIdents(named)
    IN  IF decl.kind = "enum" THEN Panic(NotStruct)
        ELSE IF decl.kind # "struct_named" THEN Panic(NotNamed)
        ELSE IF ~\E i \in 1..Len(named) : names[i] = "id" THEN Panic(NoIdField)
        ELSE Expansion("", field_names(names), column_names(names),
                       trait_bounds(named, "ToSql", Len(named)),
                       trait_bounds(named, "FromSql", Len(named)))

derive_table(decl) ==
    LET named == decl.named
        names == FieldIdents(named)
    IN  IF decl.kind = "enum" THEN Panic(NotStruct)
        ELSE IF decl.kind # "struct_named" THEN Panic(NotNamed)
        ELSE IF \E i \in 1..Len(named) : named[i].ident = "id" /\ named[i].ty # OptionI64
             THEN Panic(BadIdType)
        ELSE IF ~\E i \in 1..Len(named) : names[i] = "id" THEN Panic(NoIdField)
        ELSE Expansion("", field_names(names), column_names(names),
                       trait_bounds(named, "ToSql", Len(named)),
                       trait_bounds(named, "FromSql", Len(named)))

\* The declaration of the struct the operations are generated for.
FieldType(f) ==
    CASE f = "id" -> OptionI64
      [] f = "name" -> "String"
      [] f = "age" -> "i64"

Struct(fs) == StructNamed([i \in 1..Len(fs) |-> Field(fs[i], FieldType(fs[i]))])

---------------------------------------------------------------------------
(* The generated operations.  Each gives the database and the instance     *)
(* after the call, the result, and the number of statements it ran.        *)

Out(db, p, result, n) == [db |-> db, self |-> p, res |-> result, stmts |-> n]

create_table(db) ==
    LET e == exec_create(db)
    IN  IF e.err # "" THEN Out(e.db, NoPerson, Err(e.err), 1)
        ELSE Out(e.db, NoPerson, OkUnit, 1)

\* insert without "self.id = Some(id)".
insert_keeps_id(fs, p, db) ==
    LET e == exec_insert(db, insert_columns(fs), field_accessors(fs, p))
        id == e.db.last_insert_rowid
    IN  IF e.err # "" THEN Out(e.db, p, Err(e.err), 1)
        ELSE Out(e.db, p, OkI64(id), 1)

insert(fs, p, db) ==
    LET e == exec_insert(db, insert_columns(fs), field_accessors(fs, p))
        id == e.db.last_insert_rowid
    IN  IF e.err # "" THEN Out(e.db, p, Err(e.err), 1)
        ELSE Out(e.db, [p EXCEPT !.id = Some(id)], OkI64(id), 1)

\* update without its check of self.id.
update_unchecked(fs, p, db) ==
    LET params == field_accessors(fs, p)
        e == exec_update(db, update_columns(fs), params,
                         update_where_param(fs, params))
    IN  IF e.err # "" THEN Out(e.db, p, Err(e.err), 1)
        ELSE IF e.changes = 0 THEN Out(e.db, p, Err(QueryReturnedNoRows), 1)
        ELSE Out(e.db, p, OkUnit, 1)

update(fs, p, db) ==
    IF ~p.id.some THEN Out(db, p, Err(InvalidQuery), 0)
    ELSE LET params == field_accessors(fs, p)
             e == exec_update(db, update_columns(fs), params,
                              update_where_param(fs, params))
         IN  IF e.err # "" THEN Out(e.db, p, Err(e.err), 1)
             ELSE IF e.changes = 0 THEN Out(e.db, p, Err(QueryReturnedNoRows), 1)
             ELSE Out(e.db, p, OkUnit, 1)

\* update_or_insert without its None arm: update is always tried first and
\* insert is the fallback for a row not found only.
update_or_insert_no_none_arm(fs, p, db) ==
    LET u == update(fs, p, db)
        i == insert(fs, p, u.db)
    IN  IF u.res.ok THEN Out(u.db, p, OkI64(p.id.v), u.stmts)
        ELSE IF u.res.err = QueryReturnedNoRows
             THEN Out(i.db, i.self, i.res, u.stmts + i.stmts)
        ELSE Out(u.db, p, u.res, u.stmts)

\* update_or_insert trying the insert first and the update when it fails.
update_or_insert_insert_first(fs, p, db) ==
    LET i == insert(fs, p, db)
        u == update(fs, p, i.db)
    IN  IF ~p.id.some \/ i.res.ok THEN i
        ELSE IF u.res.ok THEN Out(u.db, p, OkI64(p.id.v), i.stmts + u.stmts)
        ELSE Out(u.db, p, u.res, i.stmts + u.stmts)

update_or_insert(fs, p, db) ==
    IF ~p.id.some THEN insert(fs, p, db)
    ELSE LET u == update(fs, p, db)
             i == insert(fs, p, u.db)
         IN  IF u.res.ok THEN Out(u.db, p, OkI64(p.id.v), u.stmts)
             ELSE Out(i.db, i.self, i.res, u.stmts + i.stmts)

\* row.get(stringify!(field)) for each field: by column name, converted by
\* FromSql for the field's type.
from_sql_row(db, k) ==
    LET row == db.rows[k]
    IN  IF row.name.t # "text" \/ row.age.t # "integer"
        THEN Err(InvalidColumnType)
        ELSE OkSelf(Person(Some(k), row.name.s, row.age.i))

get_by_id(db, id) ==
    IF ~db.exists THEN Out(db, NoPerson, Err(NoSuchTable), 1)
    ELSE IF exec_select(db, id) # {}
         THEN Out(db, NoPerson, from_sql_row(db, id), 1)
         ELSE Out(db, NoPerson, Err(QueryReturnedNoRows), 1)

\* sync setting self.id to None when the row is gone.
sync_detaches(p, db) ==
    IF ~p.id.some THEN Out(db, p, OkBool(FALSE), 0)
    ELSE LET g == get_by_id(db, p.id.v)
         IN  IF g.res.ok THEN Out(g.db, g.res.row, OkBool(TRUE), g.stmts)
             ELSE IF g.res.err = QueryReturnedNoRows
                  THEN Out(g.db, [p EXCEPT !.id = None], OkBool(FALSE), g.stmts)
             ELSE Out(g.db, p, Err(g.res.err), g.stmts)

sync(p, db) ==
    IF ~p.id.some THEN Out(db, p, OkBool(FALSE), 0)
    ELSE LET g == get_by_id(db, p.id.v)
         IN  IF g.res.ok THEN Out(g.db, g.res.row, OkBool(TRUE), g.stmts)
             ELSE IF g.res.err = QueryReturnedNoRows
                  THEN Out(g.db, p, OkBool(FALSE), g.stmts)
             ELSE Out(g.db, p, Err(g.res.err), g.stmts)

\* delete without "self.id = None".
delete_keeps_id(p, db) ==
    IF ~p.id.some THEN Out(db, p, OkBool(FALSE), 0)
    ELSE LET e == exec_delete(db, ToSqlOption(p.id))
         IN  IF e.err # "" THEN Out(e.db, p, Err(e.err), 1)
             ELSE Out(e.db, p, OkBool(e.changes > 0), 1)

\* delete returning Ok(true) whatever the statement changed.
delete_always_true(p, db) ==
    IF ~p.id.some THEN Out(db, p, OkBool(FALSE), 0)
    ELSE LET e == exec_delete(db, ToSqlOption(p.id))
         IN  IF e.err # "" THEN Out(e.db, p, Err(e.err), 1)
             ELSE Out(e.db, [p EXCEPT !.id = None], OkBool(TRUE), 1)

\* delete with "self.id = None" moved before the statement.
delete_clears_first(p, db) ==
    IF ~p.id.some THEN Out(db, p, OkBool(FALSE), 0)
    ELSE LET e == exec_delete(db, ToSqlOption(p.id))
         IN  IF e.err # "" THEN Out(e.db, [p EXCEPT !.id = None], Err(e.err), 1)
             ELSE Out(e.db, [p EXCEPT !.id = None], OkBool(e.changes > 0), 1)

delete(p, db) ==
    IF ~p.id.some THEN Out(db, p, OkBool(FALSE), 0)
    ELSE LET e == exec_delete(db, ToSqlOption(p.id))
         IN  IF e.err # "" THEN Out(e.db, p, Err(e.err), 1)
             ELSE Out(e.db, [p EXCEPT !.id = None], OkBool(e.changes > 0), 1)

delete_by_id(db, id) ==
    LET e == exec_delete(db, ToSqlI64(id))
    IN  IF e.err # "" THEN Out(e.db, NoPerson, Err(e.err), 1)
        ELSE Out(e.db, NoPerson, OkUnit, 1)

drop_table(db) ==
    LET e == exec_drop(db)
    IN  IF e.err # "" THEN Out(e.db, NoPerson, Err(e.err), 1)
        ELSE Out(e.db, NoPerson, OkUnit, 1)

---------------------------------------------------------------------------
(* The state machine: a caller holding one instance and the connection *)

InBounds(db) == RowIds(db) \subseteq Ids /\ db.seq <= MaxId

Called(name, id) == [op |-> name, id |-> id]

Snapshot == [conn |-> conn, self |-> self, other |-> other]

\* What no call of a generated operation touches.
fixed == <<input, derived, fields, other>>

\* A call of an instance method (&self or &mut self).
Method(name, o) ==
    /\ InBounds(o.db)
    /\ conn' = o.db
    /\ self' = o.self
    /\ call' = Called(name, 0)
    /\ res' = o.res
    /\ stmts' = o.stmts
    /\ pre' = Snapshot
    /\ UNCHANGED fixed

\* A call of an associated function (no instance).
Function(name, id, o) ==
    /\ conn' = o.db
    /\ call' = Called(name, id)
    /\ res' = o.res
    /\ stmts' = o.stmts
    /\ pre' = Snapshot
    /\ UNCHANGED <<fixed, self>>

Init ==
    /\ fields \in Layouts
    /\ input = Struct(fields)
    /\ derived = derive_table(input)
    /\ conn = NoTable
    /\ \E name \in Names, age \in Ages : self = Person(None, name, age)
    /\ other = NoPerson
    /\ call = Called("new", 0)
    /\ res = OkUnit
    /\ stmts = 0
    /\ pre = Snapshot

CreateTable == Function("create_table", 0, create_table(conn))
DropTable == Function("drop_table", 0, drop_table(conn))
Insert == Method("insert", insert(fields, self, conn))
Update == Method("update", update(fields, self, conn))
UpdateOrInsert == Method("update_or_insert", update_or_insert(fields, self, conn))
Sync == Method("sync", sync(self, conn))
Delete == Method("delete", delete(self, conn))
GetById == \E id \in Ids : Function("get_by_id", id, get_by_id(conn, id))
DeleteById == \E id \in Ids : Function("delete_by_id", id, delete_by_id(conn, id))

\* The caller builds a new instance: Person { id: None, name, age }.
New ==
    /\ \E name \in Names, age \in Ages : self' = Person(None, name, age)
    /\ call' = Called("new", 0)
    /\ res' = OkUnit
    /\ stmts' = 0
    /\ pre' = Snapshot
    /\ UNCHANGED <<fixed, conn>>

\* The caller assigns to the instance's columns (larry.age += 1).
Assign ==
    /\ \E name \in Names, age \in Ages : self' = [self EXCEPT !.name = name, !.age = age]
    /\ self' # self
    /\ call' = Called("assign", 0)
    /\ res' = OkUnit
    /\ stmts' = 0
    /\ pre' = Snapshot
    /\ UNCHANGED <<fixed, conn>>

\* Another writer changes a row through the connection
\* (conn.execute("UPDATE Person SET (age) = (27) WHERE id = ?1")).
OutOfBand ==
    /\ conn.exists
    /\ \E id \in RowIds(conn), name \in Names, age \in Ages :
         /\ conn' = [conn EXCEPT !.rows[id] = [name |-> Text(name), age |-> Integer(age)]]
         /\ conn' # conn
         /\ call' = Called("out_of_band", id)
    /\ res' = OkUnit
    /\ stmts' = 1
    /\ pre' = Snapshot
    /\ UNCHANGED <<fixed, self>>

Next ==
    \/ CreateTable
    \/ DropTable
    \/ Insert
    \/ Update
    \/ UpdateOrInsert
    \/ Sync
    \/ Delete
    \/ GetById
    \/ DeleteById
    \/ New
    \/ Assign
    \/ OutOfBand

Spec == Init /\ [][Next]_vars

---------------------------------------------------------------------------
(* A caller that is the only writer and keeps a copy of an instance it    *)
(* has stored.                                                             *)

\* let larry_copy = larry.clone();
Clone ==
    /\ self.id.some
    /\ other = NoPerson
    /\ other' = self
    /\ call' = Called("clone", 0)
    /\ res' = OkUnit
    /\ stmts' = 0
    /\ pre' = Snapshot
    /\ UNCHANGED <<input, derived, fields, conn, self>>

NextTwo ==
    \/ CreateTable
    \/ DropTable
    \/ Insert
    \/ Update
    \/ UpdateOrInsert
    \/ Sync
    \/ Delete
    \/ GetById
    \/ DeleteById
    \/ New
    \/ Assign
    \/ Clone

SpecTwo == Init /\ [][NextTwo]_vars

---------------------------------------------------------------------------
(* One instance of a struct that declares id first, as the only writer of  *)
(* a table that exists and is empty.                                       *)

InitSingle ==
    /\ fields \in {fs \in Layouts : fs[1] = "id"}
    /\ input = Struct(fields)
    /\ derived = derive_table(input)
    /\ conn = create_table(NoTable).db
    /\ \E name \in Names, age \in Ages : self = Person(None, name, age)
    /\ other = NoPerson
    /\ call = Called("create_table", 0)
    /\ res = OkUnit
    /\ stmts = 1
    /\ pre = [conn |-> NoTable, self |-> self, other |-> other]

NextSingle ==
    \/ Insert
    \/ Update
    \/ UpdateOrInsert
    \/ Sync
    \/ Delete
    \/ Assign

SpecSingle == InitSingle /\ [][NextSingle]_vars

---------------------------------------------------------------------------
(* derive_table alone, applied to every declaration of at most MaxFields   *)
(* fields.                                                                 *)

InitDerive ==
    /\ input \in Declarations
    /\ derived = Panic("")
    /\ fields = << >>
    /\ conn = NoTable
    /\ self = NoPerson
    /\ other = NoPerson
    /\ call = Called("declare", 0)
    /\ res = OkUnit
    /\ stmts = 0
    /\ pre = Snapshot

Derive ==
    /\ call.op = "declare"
    /\ derived' = derive_table(input)
    /\ fields' = derived'.field_names
    /\ call' = Called("derive_table", 0)
    /\ UNCHANGED <<input, conn, self, other, res, stmts, pre>>

SpecDerive == InitDerive /\ [][Derive]_vars

---------------------------------------------------------------------------
(* The claims.  Each is about the call that led to the current state:      *)
(* `call` names it, `pre` is the state it was made in.                     *)

\* The key the instance had when the call was made.
PreKey == pre.self.id.v

\* The row that holds an instance's column values.
Columns(p) == [name |-> ToSqlString(p.name), age |-> ToSqlI64(p.age)]

\* The call left every row but row k as it was.
OtherRowsUnchanged(k) ==
    /\ RowIds(conn) \ {k} = RowIds(pre.conn) \ {k}
    /\ \A j \in RowIds(conn) \ {k} : conn.rows[j] = pre.conn.rows[j]

OnTable(name) == call.op = name /\ pre.conn.exists

\* C1: insert of an instance whose id is None, on an existing table, returns
\* Ok, sets self.id to the id of a row of the table, and get_by_id of that id
\* returns an instance equal to self, whatever the position of the id field.
C1_InsertThenGet ==
    (OnTable("insert") /\ ~pre.self.id.some) =>
        /\ res.ok
        /\ self.id.some
        /\ self.id.v \in RowIds(conn)
        /\ self = [pre.self EXCEPT !.id = self.id]
        /\ get_by_id(conn, self.id.v).res = OkSelf(self)

C3_GetAbsentIsOk ==
    (OnTable("get_by_id") /\ call.id \notin RowIds(pre.conn)) => res.ok

\* C4: update of an instance whose id is None returns the missing-key error,
\* runs no statement, and leaves the table and the instance as they were.
C4_UpdateWithoutKey ==
    (call.op = "update" /\ ~pre.self.id.some) =>
        /\ res = Err(InvalidQuery)
        /\ stmts = 0
        /\ conn = pre.conn
        /\ self = pre.self

C4_Witness ==
    /\ call.op = "update" /\ ~pre.self.id.some
    /\ res = Err(InvalidQuery)
    /\ RowIds(conn) # {}

\* C5: update of an instance whose id is Some(k), row k existing, returns Ok,
\* leaves row k holding the instance's column values under id k, and leaves
\* every other row as it was, whatever the position of the id field.
C5_UpdateWritesRow ==
    (OnTable("update") /\ pre.self.id.some /\ PreKey \in RowIds(pre.conn)) =>
        /\ res.ok
        /\ self = pre.self
        /\ PreKey \in RowIds(conn)
        /\ conn.rows[PreKey] = Columns(self)
        /\ get_by_id(conn, PreKey).res = OkSelf(self)
        /\ OtherRowsUnchanged(PreKey)

\* C6: update of an instance whose id is Some(k), no row k existing, returns
\* the no-row error (neither Ok nor the missing-key error) and leaves the
\* table and the instance as they were.
C6_UpdateNoRow ==
    (OnTable("update") /\ pre.self.id.some /\ PreKey \notin RowIds(pre.conn)) =>
        /\ res = Err(QueryReturnedNoRows)
        /\ conn = pre.conn
        /\ self = pre.self

\* C7: update_or_insert of an instance whose id is None does what insert
\* does in the same state: same result, same instance, same table; when it
\* returns Ok, self.id is the returned id and names a row.
C7_UpsertIsInsert ==
    (call.op = "update_or_insert" /\ ~pre.self.id.some) =>
        /\ Out(conn, self, res, stmts) = insert(fields, pre.self, pre.conn)
        /\ res.ok => (self.id = Some(res.n) /\ res.n \in RowIds(conn))

C7_Witness ==
    /\ call.op = "update_or_insert" /\ ~pre.self.id.some
    /\ res.ok
    /\ Cardinality(RowIds(conn)) > Cardinality(RowIds(pre.conn))

\* C8: update_or_insert of an instance whose id is Some(k), row k existing,
\* keeps the set of rows, keeps self.id, returns Ok(k), and get_by_id(k)
\* then returns an instance equal to self.
C8_UpsertUpdatesInPlace ==
    (OnTable("update_or_insert") /\ pre.self.id.some /\ PreKey \in RowIds(pre.conn)) =>
        /\ RowIds(conn) = RowIds(pre.conn)
        /\ self = pre.self
        /\ res = OkI64(PreKey)
        /\ get_by_id(conn, PreKey).res = OkSelf(self)

\* C9: update_or_insert of an instance whose id is Some(k), no row k
\* existing, inserts a row under a new id other than k: it returns Ok(n)
\* with self.id = Some(n), n # k, and row n holds the instance's columns.
C9_UpsertFreshKey ==
    (OnTable("update_or_insert") /\ pre.self.id.some /\ PreKey \notin RowIds(pre.conn)) =>
        /\ res.ok
        /\ self.id = Some(res.n)
        /\ res.n # PreKey
        /\ res.n \in RowIds(conn)
        /\ conn.rows[res.n] = Columns(pre.self)

\* C10: sync never changes the table; with self.id = Some(k) and row k
\* existing it returns Ok(true) and leaves self equal to row k; with self.id
\* None, or no row k, it returns Ok(false) and leaves self as it was.
C10_Sync ==
    (call.op = "sync") =>
        /\ conn = pre.conn
        /\ (pre.conn.exists /\ pre.self.id.some /\ PreKey \in RowIds(pre.conn)) =>
              /\ res = OkBool(TRUE)
              /\ self.id = Some(PreKey)
              /\ Columns(self) = conn.rows[PreKey]
        /\ (~pre.self.id.some
              \/ (pre.conn.exists /\ PreKey \notin RowIds(pre.conn))) =>
              /\ res = OkBool(FALSE)
              /\ self = pre.self

\* The generated operations, and those of them that take the instance.
Operations == {"create_table", "insert", "update", "update_or_insert", "sync",
               "get_by_id", "delete", "delete_by_id", "drop_table"}
Methods == {"insert", "update", "update_or_insert", "sync", "delete"}

\* What update would have returned in the state the call was made in.
PreUpdate == update(fields, pre.self, pre.conn)

\* C11: insert of an instance whose id is Some(k), row k existing, returns
\* Ok(n) with n a new id other than k, adds row n holding the instance's
\* columns, leaves every other row as it was, and sets self.id to Some(n).
C11_InsertAgainFreshKey ==
    (OnTable("insert") /\ pre.self.id.some /\ PreKey \in RowIds(pre.conn)) =>
        /\ res.ok
        /\ res.n # PreKey
        /\ res.n \notin RowIds(pre.conn)
        /\ RowIds(conn) = RowIds(pre.conn) \cup {res.n}
        /\ conn.rows[res.n] = Columns(pre.self)
        /\ OtherRowsUnchanged(res.n)
        /\ self = [pre.self EXCEPT !.id = Some(res.n)]

\* C12: drop_table on an existing table returns Ok and removes the table
\* with its rows; on a table that does not exist (a second drop_table) it
\* returns an error and changes nothing; create_table on a dropped table
\* returns Ok and leaves an existing table with no row, so that get_by_id
\* finds no row for any id.
C12_DropThenCreate ==
    /\ (call.op = "drop_table" /\ pre.conn.exists) =>
          /\ res = OkUnit
          /\ ~conn.exists
          /\ RowIds(conn) = {}
          /\ self = pre.self
    /\ (call.op = "drop_table" /\ ~pre.conn.exists) =>
          /\ ~res.ok
          /\ conn = pre.conn
          /\ self = pre.self
    /\ (call.op = "create_table" /\ ~pre.conn.exists) =>
          /\ res = OkUnit
          /\ conn.exists
          /\ RowIds(conn) = {}
          /\ \A k \in Ids : get_by_id(conn, k).res = Err(QueryReturnedNoRows)

\* A second drop_table, after rows had been inserted on this connection.
C12_Witness ==
    /\ call.op = "drop_table" /\ ~pre.conn.exists
    /\ res = Err(NoSuchTable)
    /\ conn.last_insert_rowid > 0

\* C13 as stated: no call of a generated operation runs more than one
\* statement.
C13_OneStatement ==
    (call.op \in Operations) => stmts <= 1

\* C13 amended: a call of a generated operation runs at most one statement,
\* except update_or_insert on an instance whose id is Some and whose update
\* fails, which runs two: the update, then the insert.
C13_OneStatementButUpsert ==
    (call.op \in Operations) =>
        IF call.op = "update_or_insert" /\ pre.self.id.some /\ ~PreUpdate.res.ok
        THEN stmts = 2
        ELSE stmts <= 1

C13_Witness ==
    /\ OnTable("update_or_insert") /\ pre.self.id.some
    /\ PreUpdate.res = Err(QueryReturnedNoRows)
    /\ stmts = 2

\* C14: update_or_insert of an instance whose id is Some, whose update fails
\* with an error other than the no-row error, runs no insert, adds no row,
\* leaves the instance as it was and returns that error.
C14_UpsertKeepsOtherErrors ==
    (call.op = "update_or_insert" /\ pre.self.id.some
        /\ ~PreUpdate.res.ok /\ PreUpdate.res.err # QueryReturnedNoRows) =>
        /\ stmts = PreUpdate.stmts
        /\ res = PreUpdate.res
        /\ conn = pre.conn
        /\ self = pre.self

\* C16: delete of an instance whose id is None returns Ok(false), runs no
\* statement and leaves the table and the instance as they were; delete of
\* an instance whose id is Some(k), on an existing table, sets self.id to
\* None and returns Ok(true) exactly when row k existed before the call.
C16_DeleteReportsRemoval ==
    /\ (call.op = "delete" /\ ~pre.self.id.some) =>
          /\ res = OkBool(FALSE)
          /\ stmts = 0
          /\ conn = pre.conn
          /\ self = pre.self
    /\ (OnTable("delete") /\ pre.self.id.some) =>
          /\ res = OkBool(PreKey \in RowIds(pre.conn))
          /\ stmts = 1
          /\ self = [pre.self EXCEPT !.id = None]

\* The key is cleared although no row was deleted.
C16_Witness ==
    /\ OnTable("delete") /\ pre.self.id.some /\ PreKey \notin RowIds(pre.conn)
    /\ res = OkBool(FALSE)
    /\ self.id = None

\* C19: a call of insert, update, update_or_insert, sync or delete that
\* returns an error leaves every field of the instance as it was.
C19_ErrorLeavesInstance ==
    (call.op \in Methods /\ ~res.ok) => self = pre.self

\* A failed delete of an instance whose id is Some.
C19_Witness ==
    /\ call.op = "delete" /\ ~res.ok
    /\ pre.self.id.some
    /\ self.id.some

\* C15: over a call of a generated operation, self.id goes from None to
\* Some only by an insert or update_or_insert that returns Ok (and then to
\* the id returned), and from Some to None only by a delete that returns Ok;
\* update, sync and an update_or_insert whose update succeeds leave self.id
\* as it was; the associated functions leave the instance as it was; and no
\* operation changes another instance the caller holds.
C15_KeyLifecycle ==
    /\ (call.op \in Methods /\ ~pre.self.id.some /\ self.id.some) =>
          /\ call.op \in {"insert", "update_or_insert"}
          /\ res.ok
          /\ self.id = Some(res.n)
    /\ (call.op \in Methods /\ pre.self.id.some /\ ~self.id.some) =>
          /\ call.op = "delete"
          /\ res.ok
    /\ (call.op \in {"update", "sync"}) => self.id = pre.self.id
    /\ (call.op = "update_or_insert" /\ pre.self.id.some /\ PreUpdate.res.ok) =>
          self.id = pre.self.id
    /\ (call.op \in Operations \ Methods) => self = pre.self
    /\ (call.op \in Operations) => other = pre.other

\* A delete that cleared the instance's key and left the key of its copy.
C15_Witness ==
    /\ call.op = "delete" /\ res.ok
    /\ pre.self.id.some /\ ~self.id.some
    /\ other.id = pre.self.id

\* The requirements a set of bounds holds for a type, and the types of the
\* declaration's fields.
Requirements(bounds, ty, trait) ==
    {k \in DOMAIN bounds : bounds[k] = TraitBound(ty, trait)}
DeclaredTypes == {input.named[i].ty : i \in 1..Len(input.named)}

ExactlyOnePerType(bounds, trait) ==
    /\ \A k \in DOMAIN bounds : bounds[k].trait = trait
    /\ \A ty \in Types :
          Cardinality(Requirements(bounds, ty, trait))
              = IF ty \in DeclaredTypes THEN 1 ELSE 0

\* C17: for a declaration derive_table accepts, the ToSql bounds and the
\* FromSql bounds each hold exactly one requirement for every type some
\* field has, and none for any other type.
C17_OneBoundPerType ==
    (call.op = "derive_table" /\ derived.panic = "") =>
        /\ ExactlyOnePerType(derived.to_sql_trait_bounds, "ToSql")
        /\ ExactlyOnePerType(derived.from_sql_trait_bounds, "FromSql")

\* The declaration has no named fields, no field id, or an id field of
\* another type than Option<i64>.
Rejected ==
    \/ input.kind # "struct_named"
    \/ ~\E i \in 1..Len(input.named) : input.named[i].ident = "id"
    \/ \E i \in 1..Len(input.named) :
          input.named[i].ident = "id" /\ input.named[i].ty # OptionI64

Position(ident) == CHOOSE i \in 1..Len(input.named) : input.named[i].ident = ident

\* cols is every field but id, in declaration order.
ColumnsInOrder(cols) ==
    /\ Len(cols) = Len(input.named) - 1
    /\ {cols[i] : i \in 1..Len(cols)}
          = {input.named[i].ident : i \in 1..Len(input.named)} \ {"id"}
    /\ \A i, j \in 1..Len(cols) : i < j => Position(cols[i]) < Position(cols[j])

C20_SingleWriter ==
    /\ Cardinality(RowIds(conn)) <= 1
    /\ RowIds(conn) = IF self.id.some THEN {self.id.v} ELSE {}

\* A failed call: insert on the instance whose row is already there.
C20_Witness ==
    /\ call.op = "insert" /\ ~res.ok
    /\ self.id.some
    /\ RowIds(conn) = {self.id.v}

=============================================================================
